---- MODULE Spec2Model ----
(***************************************************************************)
(* A model of the PID controller of go-pidpool (src/pid.go).               *)
(*                                                                         *)
(* float64 values are modelled exactly: a finite value is a normalised     *)
(* rational n/d, and the two infinities and NaN are values of their own    *)
(* with the IEEE-754 rules for arithmetic and comparison.  The inputs the  *)
(* model draws are small integers, halves and the non-finite values, so    *)
(* no operation of the model rounds or overflows; signed zeros are not     *)
(* told apart (Go's == does not tell them apart either).                   *)
(***************************************************************************)
EXTENDS Integers, Sequences, FiniteSets, TLC

(***************************************************************************)
(* Bounds of the model.                                                    *)
(***************************************************************************)
\* Calls a single caller makes in one run of the sequential specification.
MaxOps == 3
\* The wall clock runs from 0 to MaxClock seconds.
MaxClock == 2

(***************************************************************************)
(* float64                                                                 *)
(***************************************************************************)
RECURSIVE GCD(_, _)
GCD(a, b) == IF b = 0 THEN a ELSE GCD(b, a % b)

IAbs(n) == IF n < 0 THEN -n ELSE n

Sgn(n) == IF n < 0 THEN -1 ELSE IF n > 0 THEN 1 ELSE 0

\* The finite value n/d (d # 0), in lowest terms with a positive denominator.
Rat(n, d) ==
    LET s == IF d < 0 THEN -1 ELSE 1
        g == GCD(IAbs(n), IAbs(d))
    IN  [k |-> "fin", n |-> (s * n) \div g, d |-> (s * d) \div g]

F(n) == [k |-> "fin", n |-> n, d |-> 1]

\* math.Inf(1), math.Inf(-1) and NaN.
PInf == [k |-> "inf", n |-> 1, d |-> 1]
NInf == [k |-> "inf", n |-> -1, d |-> 1]
NaN == [k |-> "nan", n |-> 0, d |-> 1]

Inf(sign) == IF sign < 0 THEN NInf ELSE PInf

IsNaN(a) == a.k = "nan"
IsFin(a) == a.k = "fin"
IsInf(a) == a.k = "inf"

\* -a
FNeg(a) == IF IsNaN(a) THEN NaN ELSE [a EXCEPT !.n = -a.n]

\* a + b
FAdd(a, b) ==
    IF IsNaN(a) \/ IsNaN(b) THEN NaN
    ELSE IF IsInf(a) /\ IsInf(b) THEN (IF a.n = b.n THEN a ELSE NaN)
    ELSE IF IsInf(a) THEN a
    ELSE IF IsInf(b) THEN b
    ELSE Rat(a.n * b.d + b.n * a.d, a.d * b.d)

\* a - b
FSub(a, b) == FAdd(a, FNeg(b))

\* a * b
FMul(a, b) ==
    IF IsNaN(a) \/ IsNaN(b) THEN NaN
    ELSE IF IsInf(a) \/ IsInf(b)
         THEN (IF a.n = 0 \/ b.n = 0 THEN NaN ELSE Inf(Sgn(a.n) * Sgn(b.n)))
    ELSE Rat(a.n * b.n, a.d * b.d)

\* a / b
FDiv(a, b) ==
    IF IsNaN(a) \/ IsNaN(b) THEN NaN
    ELSE IF IsInf(a) /\ IsInf(b) THEN NaN
    ELSE IF IsInf(a) THEN Inf(a.n * (IF b.n < 0 THEN -1 ELSE 1))
    ELSE IF IsInf(b) THEN F(0)
    ELSE IF b.n = 0 THEN (IF a.n = 0 THEN NaN ELSE Inf(Sgn(a.n)))
    ELSE Rat(a.n * b.d, a.d * b.n)

\* a < b: false as soon as one side is NaN.
FLt(a, b) ==
    /\ ~IsNaN(a)
    /\ ~IsNaN(b)
    /\ IF IsInf(a) THEN a.n = -1 /\ b # NInf
       ELSE IF IsInf(b) THEN b.n = 1
       ELSE a.n * b.d < b.n * a.d

\* a > b
FGt(a, b) == FLt(b, a)

\* a <= b: false as soon as one side is NaN.
FLe(a, b) == ~IsNaN(a) /\ ~IsNaN(b) /\ ~FLt(b, a)

\* math.Abs
FAbs(a) == IF IsNaN(a) THEN NaN ELSE [a EXCEPT !.n = IAbs(a.n)]

(***************************************************************************)
(* The controller: type PID, its constructor and its methods as functions  *)
(* of the controller's fields.  The mutex is modelled apart (variable mu). *)
(***************************************************************************)
NewPID(kp, ki, kd, deadBand, t) ==
    [kp |-> kp, ki |-> ki, kd |-> kd,
     deadBand |-> deadBand,
     outputMin |-> NInf, outputMax |-> PInf,
     integralMin |-> F(-100), integralMax |-> F(100),
     setPoint |-> F(0), prevValue |-> F(0),
     integral |-> F(0), prevError |-> F(0),
     lastUpdate |-> t]

\* if min > max { return errors.New(...) }
InvalidRange(min, max) == FGt(min, max)

\* The running sum clamped to the integral limits of p.
clampIntegral(p, integral) ==
    IF FGt(integral, p.integralMax) THEN p.integralMax
    ELSE IF FLt(integral, p.integralMin) THEN p.integralMin
    ELSE integral

\* clampOutput without its second branch: the lower limit is not applied.
clampOutput_NoLower(p, output) ==
    IF FGt(output, p.outputMax) THEN p.outputMax ELSE output

\* The raw output clamped to the output limits of p.
clampOutput(p, output) ==
    IF FGt(output, p.outputMax) THEN p.outputMax
    ELSE IF FLt(output, p.outputMin) THEN p.outputMin
    ELSE output

\* SetOutputLimits storing the limits before it tests them.
SetOutputLimits_StoreFirst(p, min, max) ==
    [pid |-> [p EXCEPT !.outputMin = min, !.outputMax = max],
     err |-> InvalidRange(min, max)]

\* SetOutputLimits clamping the running sum into the output range, as
\* SetIntegralLimits does with its own range.
SetOutputLimits_ClampsIntegral(p, min, max) ==
    IF InvalidRange(min, max)
    THEN [pid |-> p, err |-> TRUE]
    ELSE [pid |-> [p EXCEPT !.outputMin = min, !.outputMax = max,
                            !.integral =
                                IF FGt(p.integral, max) THEN max
                                ELSE IF FLt(p.integral, min) THEN min
                                ELSE p.integral],
          err |-> FALSE]

SetOutputLimits(p, min, max) ==
    IF InvalidRange(min, max)
    THEN [pid |-> p, err |-> TRUE]
    ELSE [pid |-> [p EXCEPT !.outputMin = min, !.outputMax = max],
          err |-> FALSE]

\* SetIntegralLimits without the clamp of the running sum.
SetIntegralLimits_NoClamp(p, min, max) ==
    IF InvalidRange(min, max)
    THEN [pid |-> p, err |-> TRUE]
    ELSE [pid |-> [p EXCEPT !.integralMin = min, !.integralMax = max],
          err |-> FALSE]

\* SetIntegralLimits starting the running sum afresh: it clamps 0, not the
\* sum accumulated so far, into the new range.
SetIntegralLimits_Restarts(p, min, max) ==
    IF InvalidRange(min, max)
    THEN [pid |-> p, err |-> TRUE]
    ELSE LET q == [p EXCEPT !.integralMin = min, !.integralMax = max]
         IN  [pid |-> [q EXCEPT !.integral = clampIntegral(q, F(0))],
              err |-> FALSE]

SetIntegralLimits(p, min, max) ==
    IF InvalidRange(min, max)
    THEN [pid |-> p, err |-> TRUE]
    ELSE LET q == [p EXCEPT !.integralMin = min, !.integralMax = max]
         IN  [pid |-> [q EXCEPT !.integral = clampIntegral(q, q.integral)],
              err |-> FALSE]

SetSetPoint(p, val) == [p EXCEPT !.setPoint = val]

GetSetPoint(p) == p.setPoint

\* SetPID with ki and kd stored the wrong way round.
SetPID_Swapped(p, kp, ki, kd) == [p EXCEPT !.kp = kp, !.ki = kd, !.kd = ki]

SetPID(p, kp, ki, kd) == [p EXCEPT !.kp = kp, !.ki = ki, !.kd = kd]

GetPID(p) == <<p.kp, p.ki, p.kd>>

\* deadBandError with <= for <: an error of exactly deadBand is zeroed too.
deadBandError_Inclusive(p, value) ==
    LET err == FSub(p.setPoint, value)
    IN  IF FLe(FAbs(err), p.deadBand) THEN F(0) ELSE err

\* err := pid.setPoint - value, forced to 0 inside the dead band.
deadBandError(p, value) ==
    LET err == FSub(p.setPoint, value)
    IN  IF FLt(FAbs(err), p.deadBand) THEN F(0) ELSE err

\* The running sum by the trapezoid rule, over this error and the one
\* before it.
accumulate_Trapezoid(p, err, dt) ==
    clampIntegral(p, FAdd(p.integral,
                          FMul(FDiv(FAdd(err, p.prevError), F(2)), dt)))

\* The running sum held while the proportional term alone is beyond the
\* output limits (conditional integration).
accumulate_HeldWhenSaturated(p, err, dt) ==
    IF \/ FGt(FMul(p.kp, err), p.outputMax)
       \/ FLt(FMul(p.kp, err), p.outputMin)
    THEN p.integral
    ELSE clampIntegral(p, FAdd(p.integral, FMul(err, dt)))

\* pid.integral += err * dt, then the clamp.
accumulate(p, err, dt) ==
    clampIntegral(p, FAdd(p.integral, FMul(err, dt)))

\* The derivative taken on the error, not on the measurement.
derivativeOf_OnError(p, value, dt) ==
    IF FGt(dt, F(0))
    THEN FDiv(FSub(FSub(p.setPoint, value), p.prevError), dt)
    ELSE F(0)

\* Derivative on measurement; 0 unless dt > 0.
\* The derivative taken whatever dt is, without the test dt > 0.
derivativeOf_Unguarded(p, value, dt) ==
    FNeg(FDiv(FSub(value, p.prevValue), dt))

derivativeOf(p, value, dt) ==
    IF FGt(dt, F(0))
    THEN FDiv(FNeg(FSub(value, p.prevValue)), dt)
    ELSE F(0)

\* output := pid.kp*err + pid.ki*pid.integral + pid.kd*derivative
rawOutput(p, err, derivative) ==
    FAdd(FAdd(FMul(p.kp, err), FMul(p.ki, p.integral)),
         FMul(p.kd, derivative))

\* The controller after the update, its result and the derivative it used.
\* updateInternal overwriting prevValue before it takes the derivative,
\* which is then that of a measured value that never moves.
updateInternal_StoresValueFirst(p, value, dt) ==
    LET err == deadBandError(p, value)
        p1 == [p EXCEPT !.integral = accumulate(p, err, dt),
                        !.prevValue = value]
        derivative == derivativeOf(p1, value, dt)
        output == clampOutput(p1, rawOutput(p1, err, derivative))
    IN  [pid |-> [p1 EXCEPT !.prevError = err],
         out |-> output,
         derivative |-> derivative]

updateInternal(p, value, dt) ==
    LET err == deadBandError(p, value)
        p1 == [p EXCEPT !.integral = accumulate(p, err, dt)]
        derivative == derivativeOf(p1, value, dt)
        p2 == [p1 EXCEPT !.prevValue = value]
        output == clampOutput(p2, rawOutput(p2, err, derivative))
    IN  [pid |-> [p2 EXCEPT !.prevError = err],
         out |-> output,
         derivative |-> derivative]

\* now.Sub(pid.lastUpdate).Seconds()
Seconds(t, lastUpdate) == F(t - lastUpdate)

\* Update without line 113: lastUpdate stays the time of construction.
Update_KeepsLastUpdate(p, value, t) ==
    updateInternal(p, value, Seconds(t, p.lastUpdate))

Update(p, value, t) ==
    updateInternal([p EXCEPT !.lastUpdate = t], value,
                   Seconds(t, p.lastUpdate))

UpdateDuration(p, value, dt) == updateInternal(p, value, dt)

(***************************************************************************)
(* The inputs the callers draw from.  No method validates a float64, so    *)
(* measured values and set points include an infinity and NaN, and the     *)
(* output limits a NaN bound; gains, the dead band and dt are finite here. *)
(***************************************************************************)
\* Measured values and set points: any float64, non-finite ones included
\* (0 is the set point and the previous value of a new controller).
Values == {F(-1), F(2), PInf, NaN}

\* Explicit dt, in seconds: negative, zero and positive.
Durations == {F(-1), F(0), F(2)}

\* Gain triples kp, ki, kd; no two of them agree in any component.
Gains == {<<F(1), F(2), F(3)>>, <<F(0), F(1), F(-1)>>,
          <<Rat(1, 2), F(0), F(0)>>}

DeadBands == {F(0), F(2)}

\* min, max of SetOutputLimits; <<5, 4>> is an invalid range, <<1, 1>> a
\* range of one value, and NaN > 1 is false as 5 > 4 is true.
OutputLimits ==
    {<<F(2), F(10)>>, <<F(-1), F(1)>>, <<F(1), F(1)>>, <<F(5), F(4)>>,
     <<NaN, F(1)>>}

\* min, max of SetIntegralLimits; <<3, 2>> is an invalid range.
IntegralLimits == {<<F(-1), F(1)>>, <<F(1), F(3)>>, <<F(3), F(2)>>}

(***************************************************************************)
(* State.                                                                  *)
(*   pid    the controller's fields                                        *)
(*   now    the last value the clock was read at (time.Now())              *)
(*   sumDt  the sum of the dt of all Update calls so far                   *)
(*   ret    the last completed call: its name, arguments and results       *)
(*   given  the gains and the set point most recently given by the caller  *)
(*   nops   the number of calls made so far                                *)
(*   mu     the mutex pid.mu: 0 when free, else the thread holding it      *)
(*   th     per thread: where it is in the call it makes, the call's       *)
(*          arguments and its local variables                              *)
(*   pidB, retB  a second controller and its last completed call, for the  *)
(*          runs that drive two controllers side by side                   *)
(***************************************************************************)
VARIABLES pid, now, sumDt, ret, given, nops, mu, th, pidB, retB

vars == <<pid, now, sumDt, ret, given, nops, mu, th, pidB, retB>>

\* Threads calling into the one controller.
NumThreads == 2

Threads == 1..NumThreads

\* A thread that is in no call.
Idle ==
    [pc |-> "idle", op |-> "none", args |-> <<>>, snap |-> <<>>,
     dt |-> F(0), err |-> F(0), derivative |-> F(0), output |-> F(0),
     got |-> <<>>]

\* The second controller where there is none.
NoPID == NewPID(F(0), F(0), F(0), F(0), 0)

NoRet == [op |-> "NewPID", args |-> <<>>, out |-> <<>>, err |-> FALSE]

Returned(op, args, out, err) ==
    [op |-> op, args |-> args, out |-> out, err |-> err]

Init ==
    /\ \E g \in Gains, db \in DeadBands:
         /\ pid = NewPID(g[1], g[2], g[3], db, 0)
         /\ given = [gains |-> g, setPoint |-> F(0)]
    /\ now = 0
    /\ sumDt = F(0)
    /\ ret = NoRet
    /\ nops = 0
    /\ mu = 0
    /\ th = [t \in Threads |-> Idle]
    /\ pidB = NoPID
    /\ retB = NoRet

\* What a single caller's calls leave alone: each call locks and unlocks
\* the mutex within the call, and there is no second controller.
Alone == UNCHANGED <<mu, th, pidB, retB>>

\* One more call by the caller.
Called == nops < MaxOps /\ nops' = nops + 1

CallSetOutputLimits ==
    \E l \in OutputLimits:
        LET r == SetOutputLimits(pid, l[1], l[2])
        IN  /\ Called
            /\ Alone
            /\ pid' = r.pid
            /\ ret' = Returned("SetOutputLimits", l, <<>>, r.err)
            /\ UNCHANGED <<now, sumDt, given>>

CallSetIntegralLimits ==
    \E l \in IntegralLimits:
        LET r == SetIntegralLimits(pid, l[1], l[2])
        IN  /\ Called
            /\ Alone
            /\ pid' = r.pid
            /\ ret' = Returned("SetIntegralLimits", l, <<>>, r.err)
            /\ UNCHANGED <<now, sumDt, given>>

CallSetSetPoint ==
    \E v \in Values:
        /\ Called
        /\ Alone
        /\ pid' = SetSetPoint(pid, v)
        /\ ret' = Returned("SetSetPoint", <<v>>, <<>>, FALSE)
        /\ given' = [given EXCEPT !.setPoint = v]
        /\ UNCHANGED <<now, sumDt, sumDt>>

CallGetSetPoint ==
    /\ Called
    /\ Alone
    /\ ret' = Returned("GetSetPoint", <<>>, <<GetSetPoint(pid)>>, FALSE)
    /\ UNCHANGED <<pid, now, sumDt, given>>

CallSetPID ==
    \E g \in Gains:
        /\ Called
        /\ Alone
        /\ pid' = SetPID(pid, g[1], g[2], g[3])
        /\ ret' = Returned("SetPID", g, <<>>, FALSE)
        /\ given' = [given EXCEPT !.gains = g]
        /\ UNCHANGED <<now, sumDt, sumDt>>

CallGetPID ==
    /\ Called
    /\ Alone
    /\ ret' = Returned("GetPID", <<>>, GetPID(pid), FALSE)
    /\ UNCHANGED <<pid, now, sumDt, given>>

\* Update reads the clock: any time not before the last reading.
CallUpdate ==
    \E v \in Values, t \in now..MaxClock:
        LET r == Update(pid, v, t)
        IN  /\ Called
            /\ Alone
            /\ now' = t
            /\ sumDt' = FAdd(sumDt, Seconds(t, pid.lastUpdate))
            /\ pid' = r.pid
            /\ ret' = Returned("Update", <<v, Seconds(t, pid.lastUpdate)>>,
                               <<r.out, r.derivative>>, FALSE)
            /\ UNCHANGED given

CallUpdateDuration ==
    \E v \in Values, dt \in Durations:
        LET r == UpdateDuration(pid, v, dt)
        IN  /\ Called
            /\ Alone
            /\ pid' = r.pid
            /\ ret' = Returned("UpdateDuration", <<v, dt>>,
                               <<r.out, r.derivative>>, FALSE)
            /\ UNCHANGED <<now, sumDt, given>>

Next ==
    \/ CallSetOutputLimits
    \/ CallSetIntegralLimits
    \/ CallSetSetPoint
    \/ CallGetSetPoint
    \/ CallSetPID
    \/ CallGetPID
    \/ CallUpdate
    \/ CallUpdateDuration

Spec == Init /\ [][Next]_vars

(***************************************************************************)
(* Properties of a single caller's runs (specification Spec).              *)
(***************************************************************************)
UpdateOps == {"Update", "UpdateDuration"}

C3_InvalidRangeLeavesState ==
    [][(ret'.op \in {"SetOutputLimits", "SetIntegralLimits"}
          /\ nops' = nops + 1
          /\ FGt(ret'.args[1], ret'.args[2]))
        => (ret'.err /\ pid' = pid)]_vars

\* SetOutputLimits(5, 4) failed and the limits set before, 2 and 10, are
\* still those of the controller.
C3_Witness ==
    /\ ret.op = "SetOutputLimits"
    /\ ret.args = <<F(5), F(4)>>
    /\ ret.err
    /\ pid.outputMin = F(2)
    /\ pid.outputMax = F(10)

\* C8: GetPID returns the gains most recently given (to NewPID or SetPID)
\* and GetSetPoint the set point most recently given (0 if none), whatever
\* calls were made since.
C8_ConfigRoundTrip ==
    /\ GetPID(pid) = given.gains
    /\ GetSetPoint(pid) = given.setPoint
    /\ ret.op = "GetPID" => ret.out = given.gains
    /\ ret.op = "GetSetPoint" => ret.out = <<given.setPoint>>

\* GetPID returns gains after an update has changed the controller.
C8_Witness ==
    /\ ret.op = "GetPID"
    /\ ret.out = <<F(0), F(1), F(-1)>>
    /\ pid.integral # F(0)
    /\ pid.prevValue # F(0)

C11_SetOutputLimitsFrame ==
    [][(ret'.op = "SetOutputLimits"
          /\ nops' = nops + 1
          /\ FLe(ret'.args[1], ret'.args[2]))
        => /\ ~ret'.err
           /\ pid'.outputMin = ret'.args[1]
           /\ pid'.outputMax = ret'.args[2]
           /\ pid' = [pid EXCEPT !.outputMin = pid'.outputMin,
                                 !.outputMax = pid'.outputMax]
           /\ now' = now
      ]_vars

\* SetOutputLimits(1, 1) succeeded on a controller whose integral is above
\* the new range, and the integral is still above it.
C11_Witness ==
    /\ ret.op = "SetOutputLimits"
    /\ ret.args = <<F(1), F(1)>>
    /\ ~ret.err
    /\ pid.outputMin = F(1)
    /\ pid.outputMax = F(1)
    /\ FGt(pid.integral, F(1))
    /\ pid.prevValue # F(0)

\* C12: UpdateDuration leaves lastUpdate as it was; Update stores the
\* reading of the clock it took as lastUpdate, and the dt it uses is the
\* time between that reading and the reading of the Update before it (of
\* NewPID if there was none), whatever UpdateDuration calls came between:
\* it does what UpdateDuration does with that dt.  (Only NewPID and Update
\* read the clock, so now is the reading of the last of them.)
C12_LastUpdateFrame ==
    [][/\ (ret'.op = "UpdateDuration" /\ nops' = nops + 1) =>
            /\ pid'.lastUpdate = pid.lastUpdate
            /\ now' = now
       /\ (ret'.op = "Update" /\ nops' = nops + 1) =>
            LET elapsed == F(now' - now)
                r == UpdateDuration(pid, ret'.args[1], elapsed)
            IN  /\ pid'.lastUpdate = now'
                /\ ret'.args[2] = elapsed
                /\ pid' = [r.pid EXCEPT !.lastUpdate = now']
                /\ ret'.out[1] = r.out
      ]_vars

\* Update(2) at time 1, UpdateDuration(-1, 2), Update(2) at time 2: the
\* second Update used dt = 1, and the UpdateDuration between the two has
\* left its mark on the controller.
C12_Witness ==
    LET p0 == NewPID(F(1), F(2), F(3), F(0), 0)
        p1 == Update(p0, F(2), 1).pid
        p2 == UpdateDuration(p1, F(-1), F(2)).pid
    IN  /\ nops = 3
        /\ ret.op = "Update"
        /\ ret.args = <<F(2), F(1)>>
        /\ now = 2
        /\ pid = Update(p2, F(2), 2).pid
        /\ pid # Update(p1, F(2), 2).pid
        /\ pid.lastUpdate = 2

\* C13 as stated: outputMin <= outputMax and integralMin <= integralMax in
\* every state the calls reach.
C13_LimitsOrdered ==
    /\ FLe(pid.outputMin, pid.outputMax)
    /\ FLe(pid.integralMin, pid.integralMax)

\* SetOutputLimits(NaN, 1) returned no error and NaN is the lower output
\* limit.
C13_Witness ==
    /\ ret.op = "SetOutputLimits"
    /\ ret.args = <<NaN, F(1)>>
    /\ ~ret.err
    /\ IsNaN(pid.outputMin)
    /\ pid.outputMax = F(1)

\* C14: a SetIntegralLimits(min, max) that returns no error sets
\* integralMin and integralMax to min and max and the integral to the
\* value it had clamped into [min, max] (the same if it was within the new
\* range, min if it was below, max if it was above), and changes no other
\* field.
C14_SetIntegralLimitsClamps ==
    [][(ret'.op = "SetIntegralLimits" /\ nops' = nops + 1 /\ ~ret'.err) =>
        LET min == ret'.args[1]
            max == ret'.args[2]
        IN  /\ pid'.integralMin = min
            /\ pid'.integralMax = max
            /\ (FLe(min, pid.integral) /\ FLe(pid.integral, max))
                  => pid'.integral = pid.integral
            /\ FLt(pid.integral, min) => pid'.integral = min
            /\ FGt(pid.integral, max) => pid'.integral = max
            /\ pid' = [pid EXCEPT !.integralMin = min,
                                  !.integralMax = max,
                                  !.integral = pid'.integral]
            /\ now' = now
      ]_vars

\* UpdateDuration(-1, 2) on a new controller made the integral 2;
\* SetIntegralLimits(-1, 1) then cut it down to 1, the upper end of the new
\* range.
C14_Witness ==
    /\ nops = 2
    /\ ret.op = "SetIntegralLimits"
    /\ ret.args = <<F(-1), F(1)>>
    /\ ~ret.err
    /\ pid.deadBand = F(0)
    /\ pid.prevValue = F(-1)
    /\ pid.lastUpdate = 0
    /\ pid.integralMax = F(1)
    /\ pid.integral = F(1)

\* C15: UpdateDuration(measuredValue, dt) returns what the nine steps of
\* the core algorithm give and leaves the state they prescribe, for every
\* state and input: error = setPoint - measuredValue, 0 inside the dead
\* band; integral += error*dt, clamped; derivative =
\* -(measuredValue - prevValue)/dt for dt > 0, else 0, with the prevValue
\* of the update before; prevValue = measuredValue; output = kp*error +
\* ki*integral + kd*derivative with the integral after this step's
\* accumulation and clamp, clamped to the output limits; prevError = the
\* error after the dead band.
C15_CoreAlgorithm ==
    [][(ret'.op = "UpdateDuration" /\ nops' = nops + 1) =>
        \A measuredValue \in {ret'.args[1]}, dt \in {ret'.args[2]}:
        \A error1 \in {FSub(pid.setPoint, measuredValue)}:
        \A error \in {IF FLt(FAbs(error1), pid.deadBand) THEN F(0)
                      ELSE error1}:
        \A integral3 \in {FAdd(pid.integral, FMul(error, dt))}:
        \A integral \in {IF FGt(integral3, pid.integralMax)
                         THEN pid.integralMax
                         ELSE IF FLt(integral3, pid.integralMin)
                         THEN pid.integralMin
                         ELSE integral3}:
        \A derivative \in
              {IF FGt(dt, F(0))
               THEN FNeg(FDiv(FSub(measuredValue, pid.prevValue), dt))
               ELSE F(0)}:
        \A output6 \in {FAdd(FAdd(FMul(pid.kp, error),
                                  FMul(pid.ki, integral)),
                             FMul(pid.kd, derivative))}:
        \A output \in {IF FGt(output6, pid.outputMax) THEN pid.outputMax
                       ELSE IF FLt(output6, pid.outputMin)
                       THEN pid.outputMin
                       ELSE output6}:
            /\ ret'.out = <<output, derivative>>
            /\ pid' = [pid EXCEPT !.integral = integral,
                                  !.prevValue = measuredValue,
                                  !.prevError = error]
      ]_vars

\* SetIntegralLimits(-1, 1), then UpdateDuration(-1, 2) with gains 1, 2, 3:
\* error 1, integral 0 + 2 clamped to 1, derivative -(-1 - 0)/2 = 1/2,
\* output 1*1 + 2*1 + 3*1/2 = 9/2.
C15_Witness ==
    /\ nops = 2
    /\ ret.op = "UpdateDuration"
    /\ ret.args = <<F(-1), F(2)>>
    /\ GetPID(pid) = <<F(1), F(2), F(3)>>
    /\ pid.integralMax = F(1)
    /\ pid.integral = F(1)
    /\ pid.prevValue = F(-1)
    /\ pid.prevError = F(1)
    /\ ret.out = <<Rat(9, 2), Rat(1, 2)>>

\* C16 as stated: an update with dt <= 0 has derivative 0, returns
\* kp*error + ki*integral clamped to the output limits and stores the
\* measured value as prevValue; with dt = 0 it also leaves the integral as
\* it was.
C16_NonPositiveDt ==
    [][(ret'.op \in UpdateOps /\ nops' = nops + 1
          /\ FLe(ret'.args[2], F(0))) =>
        \A error \in {deadBandError(pid, ret'.args[1])}:
            /\ ret'.out[2] = F(0)
            /\ ret'.out[1] =
                  clampOutput(pid, FAdd(FMul(pid.kp, error),
                                        FMul(pid.ki, pid'.integral)))
            /\ pid'.prevValue = ret'.args[1]
            /\ ret'.args[2] = F(0) => pid'.integral = pid.integral
      ]_vars

\* C16, amended: an update with dt <= 0 of a controller with a finite kd
\* has derivative 0, returns kp*error + ki*integral clamped to the output
\* limits and stores the measured value as prevValue; with dt = 0 and a
\* finite error it also leaves the integral as it was, while an infinite
\* or NaN error makes the integral NaN (error * 0 is NaN).
C16_NonPositiveDtFiniteError ==
    [][(ret'.op \in UpdateOps /\ nops' = nops + 1
          /\ FLe(ret'.args[2], F(0)) /\ IsFin(pid.kd)) =>
        \A error \in {deadBandError(pid, ret'.args[1])}:
            /\ ret'.out[2] = F(0)
            /\ ret'.out[1] =
                  clampOutput(pid, FAdd(FMul(pid.kp, error),
                                        FMul(pid.ki, pid'.integral)))
            /\ pid'.prevValue = ret'.args[1]
            /\ (ret'.args[2] = F(0) /\ IsFin(error))
                  => pid'.integral = pid.integral
            /\ (ret'.args[2] = F(0) /\ ~IsFin(error))
                  => IsNaN(pid'.integral)
      ]_vars

\* UpdateDuration(-1, -1), then UpdateDuration(2, 0) with gains 1, 2, 3:
\* the second has error -2 and derivative 0, leaves the integral at -1,
\* returns 1*(-2) + 2*(-1) = -4 and stores 2 over the previous value -1.
C16_Witness ==
    /\ nops = 2
    /\ ret.op = "UpdateDuration"
    /\ ret.args = <<F(2), F(0)>>
    /\ GetPID(pid) = <<F(1), F(2), F(3)>>
    /\ pid.deadBand = F(0)
    /\ pid.integral = F(-1)
    /\ pid.prevValue = F(2)
    /\ pid.prevError = F(-2)
    /\ ret.out = <<F(-4), F(0)>>

(***************************************************************************)
(* Threads.  Each thread makes calls on the one controller; a call runs    *)
(* statement by statement, every load and store of a field of the          *)
(* controller being a step of its own, so that what pid.mu excludes shows. *)
(* A thread's pc names the statement it executes next.                     *)
(***************************************************************************)
\* Calls the threads make in one run, all threads together.
MaxCalls == 3

\* What the threads pass: a smaller choice than a single caller's.
ThreadValues == {F(-1), F(2)}
ThreadGains == {<<F(1), F(2), F(3)>>, <<F(0), F(1), F(-1)>>}
ThreadOutputLimits == {<<F(-1), F(1)>>, <<F(5), F(4)>>}
ThreadIntegralLimits == {<<F(1), F(3)>>, <<F(3), F(2)>>}
ThreadDurations == {F(2)}

\* The calls a thread can make: name and arguments.
Calls ==
    {<<"SetOutputLimits", l>> : l \in ThreadOutputLimits}
    \cup {<<"SetIntegralLimits", l>> : l \in ThreadIntegralLimits}
    \cup {<<"SetSetPoint", <<v>>>> : v \in ThreadValues}
    \cup {<<"GetSetPoint", <<>>>>}
    \cup {<<"SetPID", g>> : g \in ThreadGains}
    \cup {<<"GetPID", <<>>>>}
    \cup {<<"Update", <<v>>>> : v \in ThreadValues}
    \cup {<<"UpdateDuration", <<v, dt>>>> :
            v \in ThreadValues, dt \in ThreadDurations}

\* One call of each method, and one of an invalid range: the calls of the
\* runs checked for progress.
FewCalls ==
    {<<"SetOutputLimits", <<F(-1), F(1)>>>>,
     <<"SetOutputLimits", <<F(5), F(4)>>>>,
     <<"SetIntegralLimits", <<F(1), F(3)>>>>,
     <<"SetSetPoint", <<F(2)>>>>,
     <<"GetSetPoint", <<>>>>,
     <<"SetPID", <<F(0), F(1), F(-1)>>>>,
     <<"GetPID", <<>>>>,
     <<"Update", <<F(-1)>>>>,
     <<"UpdateDuration", <<F(-1), F(2)>>>>}

\* The first statement of each method after pid.mu.Lock().
FirstLocked(op) ==
    CASE op = "SetOutputLimits" -> "storeOutputMin"
      [] op = "SetIntegralLimits" -> "storeIntegralMin"
      [] op = "SetSetPoint" -> "storeSetPoint"
      [] op = "GetSetPoint" -> "loadSetPoint"
      [] op = "SetPID" -> "storeKp"
      [] op = "GetPID" -> "loadKp"
      [] op = "Update" -> "readClock"
      [] op = "UpdateDuration" -> "error"

\* Statements executed between pid.mu.Lock() and the deferred Unlock.
LockedPcs ==
    {"storeOutputMin", "storeOutputMax", "storeIntegralMin",
     "storeIntegralMax", "clampIntegral", "storeSetPoint", "loadSetPoint",
     "storeKp", "storeKi", "storeKd", "loadKp", "loadKi", "loadKd",
     "readClock", "error", "integrate", "derive", "output", "clampOutput",
     "storePrevError", "unlock"}

ThreadInit ==
    /\ pid = NewPID(F(1), F(2), F(3), F(0), 0)
    /\ given = [gains |-> <<F(1), F(2), F(3)>>, setPoint |-> F(0)]
    /\ now = 0
    /\ sumDt = F(0)
    /\ ret = NoRet
    /\ nops = 0
    /\ mu = 0
    /\ th = [t \in Threads |-> Idle]
    /\ pidB = NoPID
    /\ retB = NoRet

\* What no step of a thread touches.
Apart == UNCHANGED <<ret, given, pidB, retB>>

\* Thread t goes to statement pc.
Goto(t, pc) == th' = [th EXCEPT ![t].pc = pc]

\* Thread t enters a method, one of calls.  SetOutputLimits and
\* SetIntegralLimits test their arguments first, which are the thread's own,
\* and go to the error return when min > max; every other method starts
\* with pid.mu.Lock().
Enter(t, calls) ==
    /\ th[t].pc = "idle"
    /\ nops < MaxCalls
    /\ nops' = nops + 1
    /\ \E c \in calls:
         th' = [th EXCEPT ![t] =
                  [Idle EXCEPT
                     !.op = c[1],
                     !.args = c[2],
                     !.dt = IF c[1] = "UpdateDuration" THEN c[2][2] ELSE F(0),
                     !.pc = IF c[1] \in {"SetOutputLimits", "SetIntegralLimits"}
                               /\ InvalidRange(c[2][1], c[2][2])
                            THEN "returnError"
                            ELSE "lock"]]
    /\ UNCHANGED <<pid, now, sumDt, mu>>
    /\ Apart

\* return errors.New(...): the call ends without having locked pid.mu.
ReturnError(t) ==
    /\ th[t].pc = "returnError"
    /\ th' = [th EXCEPT ![t] = Idle]
    /\ UNCHANGED <<pid, now, sumDt, mu, nops>>
    /\ Apart

\* Lock that does not wait for the mutex to be free.
Lock_NoWait(t) ==
    /\ th[t].pc = "lock"
    /\ mu' = t
    /\ th' = [th EXCEPT ![t].pc = FirstLocked(th[t].op), ![t].snap = pid]
    /\ UNCHANGED <<pid, now, sumDt, nops>>
    /\ Apart

\* pid.mu.Lock(): blocks while another thread holds the mutex.  snap keeps
\* the controller as it is when the lock is taken.
Lock(t) ==
    /\ th[t].pc = "lock"
    /\ mu = 0
    /\ mu' = t
    /\ th' = [th EXCEPT ![t].pc = FirstLocked(th[t].op), ![t].snap = pid]
    /\ UNCHANGED <<pid, now, sumDt, nops>>
    /\ Apart

\* A return that leaves the mutex locked.
Unlock_Missing(t) ==
    /\ th[t].pc = "unlock"
    /\ th' = [th EXCEPT ![t] = Idle]
    /\ UNCHANGED <<pid, now, sumDt, mu, nops>>
    /\ Apart

\* The deferred pid.mu.Unlock(), and the return.
Unlock(t) ==
    /\ th[t].pc = "unlock"
    /\ mu' = 0
    /\ th' = [th EXCEPT ![t] = Idle]
    /\ UNCHANGED <<pid, now, sumDt, nops>>
    /\ Apart

\* A statement of thread t that stores new fields into the controller.
Store(t, from, to, newpid) ==
    /\ th[t].pc = from
    /\ pid' = newpid
    /\ Goto(t, to)
    /\ UNCHANGED <<now, sumDt, mu, nops>>
    /\ Apart

\* pid.outputMin, pid.outputMax = min, max
StoreOutputMin(t) ==
    Store(t, "storeOutputMin", "storeOutputMax",
          [pid EXCEPT !.outputMin = th[t].args[1]])

StoreOutputMax(t) ==
    Store(t, "storeOutputMax", "unlock",
          [pid EXCEPT !.outputMax = th[t].args[2]])

\* pid.integralMin, pid.integralMax = min, max
StoreIntegralMin(t) ==
    Store(t, "storeIntegralMin", "storeIntegralMax",
          [pid EXCEPT !.integralMin = th[t].args[1]])

StoreIntegralMax(t) ==
    Store(t, "storeIntegralMax", "clampIntegral",
          [pid EXCEPT !.integralMax = th[t].args[2]])

\* The clamp of SetIntegralLimits.
ClampIntegral(t) ==
    Store(t, "clampIntegral", "unlock",
          [pid EXCEPT !.integral = clampIntegral(pid, pid.integral)])

\* pid.setPoint = val
StoreSetPoint(t) ==
    Store(t, "storeSetPoint", "unlock", SetSetPoint(pid, th[t].args[1]))

\* return pid.setPoint
LoadSetPoint(t) ==
    /\ th[t].pc = "loadSetPoint"
    /\ th' = [th EXCEPT ![t].pc = "unlock", ![t].got = <<GetSetPoint(pid)>>]
    /\ UNCHANGED <<pid, now, sumDt, mu, nops>>
    /\ Apart

\* pid.kp, pid.ki, pid.kd = kp, ki, kd: three stores, left to right.
StoreKp(t) ==
    Store(t, "storeKp", "storeKi", [pid EXCEPT !.kp = th[t].args[1]])

StoreKi(t) ==
    Store(t, "storeKi", "storeKd", [pid EXCEPT !.ki = th[t].args[2]])

StoreKd(t) ==
    Store(t, "storeKd", "unlock", [pid EXCEPT !.kd = th[t].args[3]])

\* return pid.kp, pid.ki, pid.kd: three loads, left to right.
Load(t, from, to, field) ==
    /\ th[t].pc = from
    /\ th' = [th EXCEPT ![t].pc = to, ![t].got = Append(@, field)]
    /\ UNCHANGED <<pid, now, sumDt, mu, nops>>
    /\ Apart

LoadKp(t) == Load(t, "loadKp", "loadKi", pid.kp)

LoadKi(t) == Load(t, "loadKi", "loadKd", pid.ki)

LoadKd(t) == Load(t, "loadKd", "unlock", pid.kd)

\* Update with time.Now() taken before pid.mu.Lock(): by the time the
\* thread holds the lock, its reading may be older than lastUpdate.
ReadClock_BeforeLock(t) ==
    /\ th[t].pc = "readClock"
    /\ \E c \in 0..MaxClock:
         /\ now' = IF c > now THEN c ELSE now
         /\ sumDt' = FAdd(sumDt, Seconds(c, pid.lastUpdate))
         /\ th' = [th EXCEPT ![t].pc = "error",
                             ![t].dt = Seconds(c, pid.lastUpdate)]
         /\ pid' = [pid EXCEPT !.lastUpdate = c]
    /\ UNCHANGED <<mu, nops>>
    /\ Apart

\* now := time.Now(); dt := now.Sub(pid.lastUpdate).Seconds();
\* pid.lastUpdate = now.  The clock never runs backwards.
ReadClock(t) ==
    /\ th[t].pc = "readClock"
    /\ \E c \in now..MaxClock:
         /\ now' = c
         /\ sumDt' = FAdd(sumDt, Seconds(c, pid.lastUpdate))
         /\ th' = [th EXCEPT ![t].pc = "error",
                             ![t].dt = Seconds(c, pid.lastUpdate)]
         /\ pid' = [pid EXCEPT !.lastUpdate = c]
    /\ UNCHANGED <<mu, nops>>
    /\ Apart

\* updateInternal, statement by statement.
ComputeError(t) ==
    /\ th[t].pc = "error"
    /\ th' = [th EXCEPT ![t].pc = "integrate",
                        ![t].err = deadBandError(pid, th[t].args[1])]
    /\ UNCHANGED <<pid, now, sumDt, mu, nops>>
    /\ Apart

Integrate(t) ==
    Store(t, "integrate", "derive",
          [pid EXCEPT !.integral = accumulate(pid, th[t].err, th[t].dt)])

Derive(t) ==
    /\ th[t].pc = "derive"
    /\ th' = [th EXCEPT ![t].pc = "output",
                        ![t].derivative =
                            derivativeOf(pid, th[t].args[1], th[t].dt)]
    /\ pid' = [pid EXCEPT !.prevValue = th[t].args[1]]
    /\ UNCHANGED <<now, sumDt, mu, nops>>
    /\ Apart

Output(t) ==
    /\ th[t].pc = "output"
    /\ th' = [th EXCEPT ![t].pc = "clampOutput",
                        ![t].output =
                            rawOutput(pid, th[t].err, th[t].derivative)]
    /\ UNCHANGED <<pid, now, sumDt, mu, nops>>
    /\ Apart

ClampOutput(t) ==
    /\ th[t].pc = "clampOutput"
    /\ th' = [th EXCEPT ![t].pc = "storePrevError",
                        ![t].output = clampOutput(pid, th[t].output)]
    /\ UNCHANGED <<pid, now, sumDt, mu, nops>>
    /\ Apart

StorePrevError(t) ==
    Store(t, "storePrevError", "unlock",
          [pid EXCEPT !.prevError = th[t].err])

\* A step of thread t inside a call.
Step(t) ==
    \/ ReturnError(t)
    \/ Lock(t)
    \/ StoreOutputMin(t)
    \/ StoreOutputMax(t)
    \/ StoreIntegralMin(t)
    \/ StoreIntegralMax(t)
    \/ ClampIntegral(t)
    \/ StoreSetPoint(t)
    \/ LoadSetPoint(t)
    \/ StoreKp(t)
    \/ StoreKi(t)
    \/ StoreKd(t)
    \/ LoadKp(t)
    \/ LoadKi(t)
    \/ LoadKd(t)
    \/ ReadClock(t)
    \/ ComputeError(t)
    \/ Integrate(t)
    \/ Derive(t)
    \/ Output(t)
    \/ ClampOutput(t)
    \/ StorePrevError(t)
    \/ Unlock(t)

Call(t) == Enter(t, Calls)

FewCall(t) == Enter(t, FewCalls)

ThreadNext == \E t \in Threads: Call(t) \/ Step(t)

ThreadSpec == ThreadInit /\ [][ThreadNext]_vars

FewThreadNext == \E t \in Threads: FewCall(t) \/ Step(t)

\* The Go scheduler runs every runnable goroutine again, and sync.Mutex
\* hands the mutex to a goroutine that has waited long (starvation mode),
\* so a thread in a call goes on, and one waiting in Lock gets the mutex
\* if it is free again and again.
FairThreadSpec ==
    /\ ThreadInit
    /\ [][FewThreadNext]_vars
    /\ \A t \in Threads: WF_vars(Step(t)) /\ SF_vars(Lock(t))

(***************************************************************************)
(* Properties of concurrent callers (ThreadSpec, FairThreadSpec).          *)
(***************************************************************************)
\* C4 as stated: every operation holds the mutex for its full duration, on
\* every path, the error returns of SetOutputLimits and SetIntegralLimits
\* included: a thread in a call either waits in Lock or holds the mutex.
C4_LockHeldOnEveryPath ==
    \A t \in Threads: th[t].pc \notin {"idle", "lock"} => mu = t

\* C4, amended: a thread holds the mutex exactly while it is at a statement
\* that reads or writes the controller or at the deferred Unlock, so no two
\* calls access the controller at once and a returned call holds nothing;
\* the error returns of SetOutputLimits and SetIntegralLimits come before
\* Lock and never hold the mutex.
C4_LockHeldWhileAccessing ==
    /\ \A t \in Threads: th[t].pc \in LockedPcs <=> mu = t
    /\ \A t, u \in Threads:
         (th[t].pc \in LockedPcs /\ th[u].pc \in LockedPcs) => t = u

\* A thread is at the error return of SetOutputLimits while another is in
\* the middle of SetPID.
C4_Witness ==
    \E t, u \in Threads:
        /\ th[t].pc = "returnError"
        /\ th[t].op = "SetOutputLimits"
        /\ th[u].pc = "storeKi"
        /\ mu = u

\* C5: a GetPID that runs concurrently with SetPID returns the complete old
\* or the complete new triple of gains, never a mix: the triple it returns
\* is the one in place when it took the lock, and one that was given whole.
C5_GetPIDNeverMixes ==
    \A t \in Threads:
        (th[t].op = "GetPID" /\ th[t].pc = "unlock") =>
            /\ th[t].got = GetPID(th[t].snap)
            /\ th[t].got \in ThreadGains

\* GetPID is about to return the gains an earlier SetPID stored, while
\* another SetPID waits for the lock.
C5_Witness ==
    \E t, u \in Threads:
        /\ th[t].op = "GetPID"
        /\ th[t].pc = "unlock"
        /\ th[t].got = <<F(0), F(1), F(-1)>>
        /\ th[u].op = "SetPID"
        /\ th[u].pc = "lock"
        /\ th[u].args # th[t].got

\* C6: an Update or UpdateDuration that runs concurrently with setters
\* returns, and leaves in the controller, what the same update computes
\* from the controller as it was when the update took the lock.
C6_UpdateSeesOneConfiguration ==
    \A t \in Threads:
        (th[t].op \in UpdateOps /\ th[t].pc = "unlock") =>
            LET r == IF th[t].op = "UpdateDuration"
                     THEN UpdateDuration(th[t].snap, th[t].args[1],
                                         th[t].args[2])
                     ELSE Update(th[t].snap, th[t].args[1], pid.lastUpdate)
            IN  /\ th[t].output = r.out
                /\ pid = r.pid

\* An update is about to return a result computed with the gains an
\* earlier SetPID stored, while another setter waits for the lock.
C6_Witness ==
    \E t, u \in Threads:
        /\ th[t].op \in UpdateOps
        /\ th[t].pc = "unlock"
        /\ GetPID(th[t].snap) = <<F(0), F(1), F(-1)>>
        /\ th[t].output # F(0)
        /\ th[u].op \in {"SetPID", "SetOutputLimits"}
        /\ th[u].pc = "lock"

\* C7: under fair scheduling every call a thread has entered returns, and
\* the mutex is free whenever no call is in progress.
C7_NoDeadlock ==
    /\ \A t \in Threads: (th[t].pc # "idle") ~> (th[t].pc = "idle")
    /\ []((\A t \in Threads: th[t].pc = "idle") => mu = 0)

\* A thread waits in Lock for the mutex another thread holds.
C7_Witness ==
    \E t, u \in Threads:
        /\ th[t].pc = "lock"
        /\ th[u].pc \in LockedPcs
        /\ mu = u

\* C18: with threads calling concurrently and a clock that never runs
\* backwards, lastUpdate never decreases; the thread that reads the clock
\* in Update holds the lock, stores its reading as lastUpdate and computes
\* a dt >= 0; and the dt of all Updates so far sum to the last reading of
\* the clock minus the time of construction, which is 0.
C18_UpdatesPartitionTime ==
    [][/\ pid'.lastUpdate >= pid.lastUpdate
       /\ \A t \in Threads:
            (th[t].pc = "readClock" /\ th'[t].pc # "readClock") =>
                /\ mu = t
                /\ pid'.lastUpdate = now'
                /\ FLe(F(0), th'[t].dt)
                /\ th'[t].dt = F(now' - now)
       /\ sumDt' = F(pid'.lastUpdate - 0)
      ]_vars

\* Three Updates called: one has returned, one has just read the clock at
\* time 2 and computed dt = 1, one waits for the lock; the dt so far sum
\* to 2.
C18_Witness ==
    \E t \in Threads, u \in Threads:
        /\ nops = 3
        /\ th[t].op = "Update"
        /\ th[t].pc = "error"
        /\ th[t].dt = F(1)
        /\ mu = t
        /\ th[u].op = "Update"
        /\ th[u].pc = "lock"
        /\ pid.lastUpdate = 2
        /\ sumDt = F(2)

(***************************************************************************)
(* Two controllers side by side: built alike and given the same measured   *)
(* values at the same times, but each its own set points.                  *)
(***************************************************************************)
\* The set points of these runs.
PairSetPoints == {F(2), PInf, NaN}

PairInit ==
    /\ \E g \in Gains, db \in DeadBands:
         /\ pid = NewPID(g[1], g[2], g[3], db, 0)
         /\ pidB = NewPID(g[1], g[2], g[3], db, 0)
         /\ given = [gains |-> g, setPoint |-> F(0)]
    /\ now = 0
    /\ sumDt = F(0)
    /\ ret = NoRet
    /\ retB = NoRet
    /\ nops = 0
    /\ mu = 0
    /\ th = [t \in Threads |-> Idle]

\* SetSetPoint(a) on the first controller, SetSetPoint(b) on the second.
PairSetSetPoint ==
    \E a \in PairSetPoints, b \in PairSetPoints:
        /\ Called
        /\ pid' = SetSetPoint(pid, a)
        /\ pidB' = SetSetPoint(pidB, b)
        /\ ret' = Returned("SetSetPoint", <<a>>, <<>>, FALSE)
        /\ retB' = Returned("SetSetPoint", <<b>>, <<>>, FALSE)
        /\ UNCHANGED <<now, sumDt, given, mu, th>>

\* Update(v) on both controllers, at the same reading of the clock.
PairUpdate ==
    \E v \in Values, t \in now..MaxClock:
        LET r == Update(pid, v, t)
            rB == Update(pidB, v, t)
        IN  /\ Called
            /\ now' = t
            /\ sumDt' = FAdd(sumDt, Seconds(t, pid.lastUpdate))
            /\ pid' = r.pid
            /\ pidB' = rB.pid
            /\ ret' = Returned("Update", <<v, Seconds(t, pid.lastUpdate)>>,
                               <<r.out, r.derivative>>, FALSE)
            /\ retB' = Returned("Update", <<v, Seconds(t, pidB.lastUpdate)>>,
                                <<rB.out, rB.derivative>>, FALSE)
            /\ UNCHANGED <<given, mu, th>>

\* UpdateDuration(v, dt) on both controllers.
PairUpdateDuration ==
    \E v \in Values, dt \in Durations:
        LET r == UpdateDuration(pid, v, dt)
            rB == UpdateDuration(pidB, v, dt)
        IN  /\ Called
            /\ pid' = r.pid
            /\ pidB' = rB.pid
            /\ ret' = Returned("UpdateDuration", <<v, dt>>,
                               <<r.out, r.derivative>>, FALSE)
            /\ retB' = Returned("UpdateDuration", <<v, dt>>,
                                <<rB.out, rB.derivative>>, FALSE)
            /\ UNCHANGED <<now, sumDt, given, mu, th>>

PairNext == PairSetSetPoint \/ PairUpdate \/ PairUpdateDuration

PairSpec == PairInit /\ [][PairNext]_vars

\* a == b in Go: false as soon as one side is NaN.
FEq(a, b) == ~IsNaN(a) /\ ~IsNaN(b) /\ a = b

\* C10 as stated: the derivative term of every update is the same in both
\* controllers, and it is zero whenever the measured value equals the
\* previous measured value.
C10_DerivativeIgnoresSetPoint ==
    [][(ret'.op \in UpdateOps /\ nops' = nops + 1) =>
        /\ ret'.out[2] = retB'.out[2]
        /\ FEq(ret'.args[1], pid.prevValue) => ret'.out[2] = F(0)
      ]_vars

\* C10, amended: the derivative term of every update is the same in both
\* controllers, and it is zero whenever the measured value equals the
\* previous measured value and is finite (an infinite measured value seen
\* twice gives Inf - Inf, and the derivative is NaN when dt > 0).
C10_DerivativeIgnoresSetPointFinite ==
    [][(ret'.op \in UpdateOps /\ nops' = nops + 1) =>
        /\ ret'.out[2] = retB'.out[2]
        /\ (FEq(ret'.args[1], pid.prevValue) /\ IsFin(ret'.args[1]))
              => ret'.out[2] = F(0)
      ]_vars

\* An update with dt = 2 that measured 2 as the update before it did: the
\* derivative is 0 in both controllers, whose set points, errors and
\* outputs differ.
C10_Witness ==
    /\ ret.op = "UpdateDuration"
    /\ ret.args = <<F(2), F(2)>>
    /\ ret.out[2] = F(0)
    /\ retB.out[2] = F(0)
    /\ pid.setPoint # pidB.setPoint
    /\ pid.prevError # pidB.prevError
    /\ ret.out[1] # retB.out[1]

(***************************************************************************)
(* Two controllers side by side that get the same calls with the same      *)
(* arguments.  The second has been through SetSetPoint(e),                 *)
(* UpdateDuration(0, 0), SetSetPoint(0) since it was built, which leaves   *)
(* e as its prevError and every other field as NewPID set it.              *)
(***************************************************************************)
\* The errors the second controller has seen; none is within a dead band.
PrevErrors == {F(-2), F(5)}

\* Limits these runs set: a range, a range of one value, an invalid range.
SameOutputLimits == {<<F(-1), F(1)>>, <<F(1), F(1)>>, <<F(5), F(4)>>}

SameIntegralLimits == {<<F(-1), F(1)>>, <<F(3), F(2)>>}

SameInit ==
    /\ \E g \in Gains, db \in DeadBands, e \in PrevErrors:
         LET p == NewPID(g[1], g[2], g[3], db, 0)
         IN  /\ pid = p
             /\ pidB = SetSetPoint(
                           UpdateDuration(SetSetPoint(p, e), F(0), F(0)).pid,
                           F(0))
             /\ given = [gains |-> g, setPoint |-> F(0)]
    /\ now = 0
    /\ sumDt = F(0)
    /\ ret = NoRet
    /\ retB = NoRet
    /\ nops = 0
    /\ mu = 0
    /\ th = [t \in Threads |-> Idle]

\* SetOutputLimits(l) on both controllers.
SameSetOutputLimits ==
    \E l \in SameOutputLimits:
        LET r == SetOutputLimits(pid, l[1], l[2])
            rB == SetOutputLimits(pidB, l[1], l[2])
        IN  /\ Called
            /\ pid' = r.pid
            /\ pidB' = rB.pid
            /\ ret' = Returned("SetOutputLimits", l, <<>>, r.err)
            /\ retB' = Returned("SetOutputLimits", l, <<>>, rB.err)
            /\ UNCHANGED <<now, sumDt, given, mu, th>>

\* SetIntegralLimits(l) on both controllers.
SameSetIntegralLimits ==
    \E l \in SameIntegralLimits:
        LET r == SetIntegralLimits(pid, l[1], l[2])
            rB == SetIntegralLimits(pidB, l[1], l[2])
        IN  /\ Called
            /\ pid' = r.pid
            /\ pidB' = rB.pid
            /\ ret' = Returned("SetIntegralLimits", l, <<>>, r.err)
            /\ retB' = Returned("SetIntegralLimits", l, <<>>, rB.err)
            /\ UNCHANGED <<now, sumDt, given, mu, th>>

\* SetSetPoint(v) on both controllers.
SameSetSetPoint ==
    \E v \in PairSetPoints:
        /\ Called
        /\ pid' = SetSetPoint(pid, v)
        /\ pidB' = SetSetPoint(pidB, v)
        /\ ret' = Returned("SetSetPoint", <<v>>, <<>>, FALSE)
        /\ retB' = Returned("SetSetPoint", <<v>>, <<>>, FALSE)
        /\ UNCHANGED <<now, sumDt, given, mu, th>>

\* GetSetPoint() on both controllers.
SameGetSetPoint ==
    /\ Called
    /\ ret' = Returned("GetSetPoint", <<>>, <<GetSetPoint(pid)>>, FALSE)
    /\ retB' = Returned("GetSetPoint", <<>>, <<GetSetPoint(pidB)>>, FALSE)
    /\ UNCHANGED <<pid, pidB, now, sumDt, given, mu, th>>

\* SetPID(g) on both controllers.
SameSetPID ==
    \E g \in Gains:
        /\ Called
        /\ pid' = SetPID(pid, g[1], g[2], g[3])
        /\ pidB' = SetPID(pidB, g[1], g[2], g[3])
        /\ ret' = Returned("SetPID", g, <<>>, FALSE)
        /\ retB' = Returned("SetPID", g, <<>>, FALSE)
        /\ UNCHANGED <<now, sumDt, given, mu, th>>

\* GetPID() on both controllers.
SameGetPID ==
    /\ Called
    /\ ret' = Returned("GetPID", <<>>, GetPID(pid), FALSE)
    /\ retB' = Returned("GetPID", <<>>, GetPID(pidB), FALSE)
    /\ UNCHANGED <<pid, pidB, now, sumDt, given, mu, th>>

SameNext ==
    \/ SameSetOutputLimits
    \/ SameSetIntegralLimits
    \/ SameSetSetPoint
    \/ SameGetSetPoint
    \/ SameSetPID
    \/ SameGetPID
    \/ PairUpdate
    \/ PairUpdateDuration

SameSpec == SameInit /\ [][SameNext]_vars

\* The fields of a controller other than prevError.
ButPrevError(p) == [p EXCEPT !.prevError = F(0)]

\* C17: two controllers that differ in prevError only and get the same
\* calls return the same from every call (the output of every Update and
\* UpdateDuration, the values of GetPID and GetSetPoint, the error of the
\* limit setters) and agree on every field other than prevError after
\* every call.
C17_PrevErrorNotAnInput ==
    /\ ret = retB
    /\ ButPrevError(pid) = ButPrevError(pidB)

\* The first call was an update with dt = 2 of the two controllers, whose
\* prevError differed: both returned the same output, not 0, and their
\* prevError is now the same too.
C17_Witness ==
    /\ nops = 1
    /\ ret.op = "UpdateDuration"
    /\ ret.args[2] = F(2)
    /\ IsFin(ret.out[1])
    /\ ret.out[1] # F(0)
    /\ retB.out[1] = ret.out[1]
    /\ pid.prevError = pidB.prevError
    /\ pid.prevError # F(0)

(***************************************************************************)
(* Two controllers side by side, each with its own gains and its own       *)
(* output limits, and alike in everything else: they get the same set      *)
(* points, integral limits, measured values and dt.                        *)
(***************************************************************************)
\* The gains of these runs.
OwnGains == {<<F(1), F(2), F(3)>>, <<F(0), F(1), F(-1)>>}

\* The output limits of these runs; <<5, 4>> is an invalid range.
OwnOutputLimits == {<<F(-1), F(1)>>, <<F(2), F(10)>>, <<F(5), F(4)>>}

OwnInit ==
    /\ \E g \in OwnGains, gB \in OwnGains, db \in DeadBands:
         /\ g # gB
         /\ pid = NewPID(g[1], g[2], g[3], db, 0)
         /\ pidB = NewPID(gB[1], gB[2], gB[3], db, 0)
         /\ given = [gains |-> g, setPoint |-> F(0)]
    /\ now = 0
    /\ sumDt = F(0)
    /\ ret = NoRet
    /\ retB = NoRet
    /\ nops = 0
    /\ mu = 0
    /\ th = [t \in Threads |-> Idle]

\* SetPID(g) on the first controller, SetPID(gB) on the second.
OwnSetPID ==
    \E g \in OwnGains, gB \in OwnGains:
        /\ Called
        /\ pid' = SetPID(pid, g[1], g[2], g[3])
        /\ pidB' = SetPID(pidB, gB[1], gB[2], gB[3])
        /\ ret' = Returned("SetPID", g, <<>>, FALSE)
        /\ retB' = Returned("SetPID", gB, <<>>, FALSE)
        /\ UNCHANGED <<now, sumDt, given, mu, th>>

\* SetOutputLimits(l) on the first controller, SetOutputLimits(lB) on the
\* second.
OwnSetOutputLimits ==
    \E l \in OwnOutputLimits, lB \in OwnOutputLimits:
        LET r == SetOutputLimits(pid, l[1], l[2])
            rB == SetOutputLimits(pidB, lB[1], lB[2])
        IN  /\ Called
            /\ pid' = r.pid
            /\ pidB' = rB.pid
            /\ ret' = Returned("SetOutputLimits", l, <<>>, r.err)
            /\ retB' = Returned("SetOutputLimits", lB, <<>>, rB.err)
            /\ UNCHANGED <<now, sumDt, given, mu, th>>

OwnNext ==
    \/ OwnSetPID
    \/ OwnSetOutputLimits
    \/ SameSetSetPoint
    \/ SameSetIntegralLimits
    \/ PairUpdate
    \/ PairUpdateDuration

OwnSpec == OwnInit /\ [][OwnNext]_vars

\* C19: two controllers that differ in gains and output limits only and
\* get the same set points, integral limits, measured values and dt have
\* the same integral, prevValue and prevError after every update, whether
\* or not the output of either was clamped.
C19_SaturationDoesNotFeedBack ==
    ret.op \in UpdateOps =>
        /\ pid.integral = pidB.integral
        /\ pid.prevValue = pidB.prevValue
        /\ pid.prevError = pidB.prevError

\* An update whose output the first controller clamped to its upper limit
\* 1 and the second, with other gains and limits, did not clamp: both hold
\* the same integral, which is above the first one's output range.
C19_Witness ==
    /\ ret.op = "UpdateDuration"
    /\ GetPID(pid) # GetPID(pidB)
    /\ pid.outputMax = F(1)
    /\ ret.out[1] = F(1)
    /\ pidB.outputMax = F(10)
    /\ FLt(retB.out[1], F(10))
    /\ FGt(retB.out[1], F(2))
    /\ pid.integral = F(2)
    /\ pidB.integral = F(2)

====
